---- MODULE Spec2Model ----
(***************************************************************************)
(* Model of the portfolio backtest engine of q-alpha                       *)
(* (backend/services/backtest_engine.py, metrics_calculator.py and the     *)
(* repositories it reads) and of the services around it: the strategies   *)
(* API, the fetch cache, the Baostock login and the market-data routes.    *)
(* Spec, BenchSpec and MetricsSpec: one behaviour is one call of           *)
(* BacktestEngine.run on one database snapshot.  StrategySpec, CacheSpec,  *)
(* LoginSpec and MarketSpec: one behaviour is a sequence of calls of one   *)
(* service while the others are idle.                                      *)
(*                                                                         *)
(* Numbers: Python floats are modelled as exact rationals <<n, d>> in      *)
(* lowest terms with d > 0; the value 0/0 that pandas produces as NaN is   *)
(* the model value NaN.  Weights are given in hundredths (60 is 0.6).      *)
(* Dates: a datetime is [day, hour]; day d is 2024-01-d.                   *)
(***************************************************************************)
EXTENDS Integers, Sequences, FiniteSets, TLC

(***************************************************************************)
(* Bounds and input domains                                                *)
(***************************************************************************)
MaxDate == 3

Days == 1..MaxDate

Hours == {0, 15}

Codes == {"A", "B"}

Weights == {0, 40, 60, 100}

WeightScale == 100

WeightTolerance == 1

DefaultCapital == 100000

Capitals == {DefaultCapital, 5000}

\* The market's closing price of each asset on each day (a fact of the
\* world); which of these rows the database holds is part of the input.
CloseTable == [A |-> <<10, 11, 9, 12, 10>>, B |-> <<20, 20, 22, 21, 19>>]
              @@ ("000001" :> <<30, 33, 27, 30, 36>>)
              @@ ("000300" :> <<40, 50, 40, 30, 60>>)

ClosePrice(code, day) == CloseTable[code][((day - 1) % 5) + 1]

\* None (also: no result yet, no error)
NoValue == <<>>

\* float nan, the value of 0.0 / 0.0 on a pandas Series
NaN == <<0, 0>>

(***************************************************************************)
(* Exact rational arithmetic standing for float arithmetic                 *)
(***************************************************************************)
Abs(x) == IF x < 0 THEN -x ELSE x

RECURSIVE GCD(_, _)
GCD(a, b) == IF b = 0 THEN a ELSE GCD(b, a % b)

Gcd(a, b) == GCD(Abs(a), Abs(b))

Rat(n, d) ==
    LET g == Gcd(n, d)
        s == IF d < 0 THEN -1 ELSE 1
    IN  <<(s * n) \div g, (s * d) \div g>>

RInt(n) == <<n, 1>>

Zero == RInt(0)

One == RInt(1)

RAdd(x, y) ==
    LET g == Gcd(x[2], y[2])
        l == (x[2] \div g) * y[2]
    IN  Rat(x[1] * (l \div x[2]) + y[1] * (l \div y[2]), l)

RNeg(x) == <<-x[1], x[2]>>

RSub(x, y) == RAdd(x, RNeg(y))

RMul(x, y) ==
    LET g1 == Gcd(x[1], y[2])
        g2 == Gcd(y[1], x[2])
    IN  IF x[1] = 0 \/ y[1] = 0 THEN Zero
        ELSE Rat((x[1] \div g1) * (y[1] \div g2), (x[2] \div g2) * (y[2] \div g1))

\* x / y for y # 0
RDiv(x, y) == RMul(x, Rat(y[2], y[1]))

RLess(x, y) == x[1] * y[2] < y[1] * x[2]

RPos(x) == x[1] > 0

RMax(x, y) == IF RLess(x, y) THEN y ELSE x

RECURSIVE RSumSeq(_)
RSumSeq(s) == IF s = <<>> THEN Zero ELSE RAdd(Head(s), RSumSeq(Tail(s)))

(***************************************************************************)
(* Dates                                                                   *)
(***************************************************************************)
DateTime(day, hour) == [day |-> day, hour |-> hour]

\* datetime.date() / to_date_value / to_date: drop the time part
to_date_value(dt) == dt.day

\* ordering of datetimes (Timestamp comparison)
DtLess(a, b) == a.day < b.day \/ (a.day = b.day /\ a.hour < b.hour)

\* dt.strftime("%Y-%m-%d"): the text 2024-01-DD as a sequence of digits
strftime(dt) == <<2, 0, 2, 4, 0, 1, dt.day \div 10, dt.day % 10>>

RECURSIVE StrLess(_, _)
StrLess(s, t) ==
    IF s = <<>> THEN t # <<>>
    ELSE IF t = <<>> THEN FALSE
    ELSE IF Head(s) # Head(t) THEN Head(s) < Head(t)
    ELSE StrLess(Tail(s), Tail(t))

\* a sort that yields the dates in descending order
RECURSIVE SortedDates_desc(_)
SortedDates_desc(S) ==
    IF S = {} THEN <<>>
    ELSE LET m == CHOOSE x \in S : \A y \in S : y = x \/ DtLess(y, x)
         IN  <<m>> \o SortedDates_desc(S \ {m})

\* sorted(set): the ascending sequence of a finite set of datetimes
RECURSIVE SortedDates(_)
SortedDates(S) ==
    IF S = {} THEN <<>>
    ELSE LET m == CHOOSE x \in S : \A y \in S : y = x \/ DtLess(x, y)
         IN  <<m>> \o SortedDates(S \ {m})

(***************************************************************************)
(* Database snapshot and run arguments                                     *)
(***************************************************************************)
\* MarketDaily rows; bulk_create_from_df stores the date part only
AllRows == {[code |-> c, date |-> DateTime(d, 0), close |-> ClosePrice(c, d)] :
                c \in Codes, d \in Days}

\* the benchmark indices of _calculate_benchmark_curves, in dict order
benchmarks == <<[key |-> "sh", code |-> "000001"], [key |-> "hs300", code |-> "000300"]>>

BenchmarkCodes == {benchmarks[m].code : m \in 1..Len(benchmarks)}

BenchmarkRows == {[code |-> c, date |-> DateTime(d, 0), close |-> ClosePrice(c, d)] :
                      c \in BenchmarkCodes, d \in Days}

\* benchmark data of the engine runs: both indices registered, one with
\* a row on every day and one starting a day late (BenchSpec varies them)
BenchmarkSample ==
    [assets |-> BenchmarkCodes,
     rows |-> {r \in BenchmarkRows : r.code = "000001" \/ to_date_value(r.date) >= 2}]

\* strategy.rebalance_type with strategy.rebalance_threshold
RebalancePolicies == {<<"monthly", NoValue>>, <<"threshold", <<5>>>>}

Entry(c, w) == [code |-> c, weight |-> w]

\* strategy.allocation as the ordered items of the dict: distinct codes,
\* non-negative weights; it is either empty or sums to 1 within tolerance
Allocations ==
    {<<>>}
    \cup {<<Entry(c, w)>> : c \in Codes, w \in {x \in Weights : Abs(x - WeightScale) <= WeightTolerance}}
    \cup {<<Entry(c1, w1), Entry(c2, w2)>> : c1 \in Codes, c2 \in Codes, w1 \in Weights, w2 \in Weights}

ValidAllocation(al) ==
    /\ \A m, n \in 1..Len(al) : m # n => al[m].code # al[n].code
    /\ al = <<>> \/ Abs(RSumSeq([m \in 1..Len(al) |-> RInt(al[m].weight)])[1] - WeightScale) <= WeightTolerance

VARIABLES
    assets,           \* codes registered in the assets table
    market_daily,     \* rows of the market_daily table
    allocation,       \* strategy.allocation
    start_date,       \* run argument
    end_date,         \* run argument
    initial_capital,  \* run argument
    pc,               \* position in BacktestEngine.run
    k,                \* number of asset codes loaded so far
    asset_data,       \* code -> (date -> close), the per-asset frames
    all_dates,        \* aligned dates
    i,                \* number of aligned dates processed
    cash,
    holdings,
    first_day,
    rebalance_count,
    equity_curve,
    drawdown_curve,
    result,
    error,
    holdings_writes,  \* history: how many dates wrote into holdings
    rebalance_type,       \* strategy.rebalance_type
    rebalance_threshold,  \* strategy.rebalance_threshold (hundredths) or None
    metrics,              \* the dict returned by calculate_all_metrics
    benchmark_curves      \* key -> curve, from _calculate_benchmark_curves

engine_vars == <<assets, market_daily, allocation, start_date, end_date,
                 initial_capital, pc, k, asset_data, all_dates, i, cash, holdings,
                 first_day, rebalance_count, equity_curve, drawdown_curve, result,
                 error, holdings_writes, rebalance_type, rebalance_threshold,
                 metrics, benchmark_curves>>

\* State of the services around the engine: the strategies API
VARIABLES
    strategies,       \* rows of the strategies table, in id order
    request,          \* the request that was handled last
    http_status       \* the status of its response

strategy_vars == <<strategies, request, http_status>>

\* the cache directory of a CacheManager
VARIABLES
    parquet,          \* cache key -> <<frame>> of its .parquet file, <<>> if none
    meta,             \* cache key -> <<expires_at>> of its .json file, <<>> if none
    now,              \* datetime.now(), in hours
    cache_call,       \* the CacheManager call made last (seq flips at each call)
    cache_ret,        \* what it returned
    last_stored       \* history: key -> <<frame>> last passed to to_parquet

cache_vars == <<parquet, meta, now, cache_call, cache_ret, last_stored>>

\* the Baostock session shared by all BaostockFetcher instances
VARIABLES
    login_count,      \* BaostockFetcher._login_count
    bs_session,       \* TRUE while the provider holds a login
    login_call,       \* the _ensure_login / _safe_logout call made last
    ensure_ok,        \* history: _ensure_login calls that returned
    logout_pos,       \* history: _safe_logout calls made with a positive count
    fetch_pc,         \* position of the fetch operation in progress
    attempt,          \* attempt number of the retry decorator
    count_before      \* history: _login_count when the fetch was called

login_vars == <<login_count, bs_session, login_call, ensure_ok, logout_pos,
                fetch_pc, attempt, count_before>>

\* the market-data routes and the update-all background task
VARIABLES
    stored,           \* date -> number of market_daily rows of the index asset
    update_status,    \* the module-level _update_status dict
    tasks,            \* the update-all tasks started so far, each [pc, i]
    market_call       \* the market or backtest request handled last

market_vars == <<stored, update_status, tasks, market_call>>

service_vars == <<strategy_vars, cache_vars, login_vars, market_vars>>

vars == <<engine_vars, service_vars>>

\* no strategy request has been handled
StrategyIdle ==
    /\ strategies = <<>>
    /\ request = [op |-> "none"]
    /\ http_status = 0

\* no cache directory is in use
CacheIdle ==
    /\ parquet = <<>>
    /\ meta = <<>>
    /\ now = 0
    /\ cache_call = [op |-> "none"]
    /\ cache_ret = [some |-> FALSE, df |-> <<>>, raised |-> FALSE]
    /\ last_stored = <<>>

\* the fetchers are idle and logged out
LoginIdle ==
    /\ login_count = 0
    /\ bs_session = FALSE
    /\ login_call = [op |-> "none", seq |-> 0, bs_login |-> FALSE, bs_logout |-> FALSE,
                     raised |-> FALSE]
    /\ ensure_ok = 0
    /\ logout_pos = 0
    /\ fetch_pc = "idle"
    /\ attempt = 0
    /\ count_before = 0

\* no market request has been handled and no update-all task was started
MarketIdle ==
    /\ stored = <<>>
    /\ update_status = [is_updating |-> FALSE, total |-> 0, updated |-> 0, errors |-> 0]
    /\ tasks = <<>>
    /\ market_call = [op |-> "none", status |-> "none", seq |-> 0]

\* no request has been handled and nothing is cached, logged in or running
ServicesIdle == StrategyIdle /\ CacheIdle /\ LoginIdle /\ MarketIdle

inputs == <<assets, market_daily, allocation, start_date, end_date, initial_capital,
            rebalance_type, rebalance_threshold>>

asset_codes == [m \in 1..Len(allocation) |-> allocation[m].code]

CodeSet == {allocation[m].code : m \in 1..Len(allocation)}

asset_weights(code) ==
    LET m == CHOOSE n \in 1..Len(allocation) : allocation[n].code = code
    IN  RInt(allocation[m].weight)

\* the locals of run before its first statement
RunStart ==
    /\ pc = "load"
    /\ k = 0
    /\ asset_data = <<>>
    /\ all_dates = <<>>
    /\ i = 0
    /\ cash = Zero
    /\ holdings = <<>>
    /\ first_day = TRUE
    /\ rebalance_count = 0
    /\ equity_curve = <<>>
    /\ drawdown_curve = <<>>
    /\ result = NoValue
    /\ error = NoValue
    /\ holdings_writes = 0
    /\ metrics = NoValue
    /\ benchmark_curves = <<>>

Init ==
    /\ \E sa \in {Codes, {"A"}}, rows \in SUBSET AllRows :
          /\ assets = sa \cup BenchmarkSample.assets
          /\ market_daily = rows \cup BenchmarkSample.rows
    /\ allocation \in {al \in Allocations : ValidAllocation(al)}
    /\ start_date \in {DateTime(d, h) : d \in Days, h \in Hours}
    /\ end_date \in {DateTime(d, h) : d \in Days, h \in Hours}
    /\ initial_capital \in {RInt(c) : c \in Capitals}
    /\ \E p \in RebalancePolicies : rebalance_type = p[1] /\ rebalance_threshold = p[2]
    /\ RunStart
    /\ ServicesIdle

(***************************************************************************)
(* Step 1 of run: load the per-asset market data                           *)
(***************************************************************************)
\* AssetRepository.get_by_code
get_by_code(code) == IF code \in assets THEN <<code>> ELSE NoValue

\* MarketDataRepository.get_by_asset with both bounds given
get_by_asset(code, start, end) ==
    {r \in market_daily :
        /\ r.code = code
        /\ to_date_value(r.date) >= to_date_value(start)
        /\ to_date_value(r.date) <= to_date_value(end)}

\* a query that deletes the rows it has read
table_after_select_deleting(rows, code) == {r \in rows : r.code # code}

\* the market_daily table after the SELECT of get_by_asset: unchanged
table_after_select(rows, code) == rows

\* an emptiness test that never fires
NoData_never(data) == FALSE

\* "if not data"
NoData(data) == data = {}

\* the DataFrame indexed by date, reduced to its close column
Frame(data) == [dt \in {r.date : r \in data} |-> (CHOOSE r \in data : r.date = dt).close]

LoadAsset ==
    /\ pc = "load"
    /\ k < Len(asset_codes)
    /\ LET code == asset_codes[k + 1]
           asset == get_by_code(code)
           data == get_by_asset(code, start_date, end_date)
       IN  IF asset = NoValue
           THEN /\ pc' = "failed"
                /\ error' = <<"Asset not found in database", code>>
                /\ UNCHANGED <<k, asset_data, market_daily>>
           ELSE IF NoData(data)
           THEN /\ pc' = "failed"
                /\ error' = <<"No market data for asset", code>>
                /\ market_daily' = table_after_select(market_daily, code)
                /\ UNCHANGED <<k, asset_data>>
           ELSE /\ asset_data' = [c \in DOMAIN asset_data \cup {code} |->
                                    IF c = code THEN Frame(data) ELSE asset_data[c]]
                /\ k' = k + 1
                /\ market_daily' = table_after_select(market_daily, code)
                /\ UNCHANGED <<pc, error>>
    /\ UNCHANGED <<assets, allocation, start_date, end_date, initial_capital,
                   rebalance_type, rebalance_threshold, all_dates, i, cash,
                   holdings, first_day, rebalance_count,
                   equity_curve, drawdown_curve, result, holdings_writes, metrics,
                   benchmark_curves>>
    /\ UNCHANGED service_vars

(***************************************************************************)
(* Step 2 of run: align the dates, then set up the simulation state        *)
(***************************************************************************)
\* a range filter that leaves out the end date
AlignedDates_exclusive(data, start, end) ==
    LET union == UNION {DOMAIN data[c] : c \in DOMAIN data}
        sorted == SortedDates(union)
    IN  SelectSeq(sorted, LAMBDA d : to_date_value(d) >= to_date_value(start)
                                     /\ to_date_value(d) < to_date_value(end))

\* sorted(set().union(*[df.index ...])) filtered to the requested range
AlignedDates(data, start, end) ==
    LET union == UNION {DOMAIN data[c] : c \in DOMAIN data}
        start_date_only == to_date_value(start)
        end_date_only == to_date_value(end)
        sorted == SortedDates(union)
    IN  SelectSeq(sorted, LAMBDA d : to_date_value(d) >= start_date_only
                                     /\ to_date_value(d) <= end_date_only)

AlignDates ==
    /\ pc = "load"
    /\ k = Len(asset_codes)
    /\ all_dates' = AlignedDates(asset_data, start_date, end_date)
    /\ equity_curve' = <<>>
    /\ cash' = initial_capital
    /\ holdings' = [c \in CodeSet |-> Zero]
    /\ rebalance_count' = 0
    /\ first_day' = TRUE
    /\ pc' = "simulate"
    /\ UNCHANGED <<inputs, k, asset_data, i, drawdown_curve, result, error,
                   holdings_writes, metrics, benchmark_curves>>
    /\ UNCHANGED service_vars

(***************************************************************************)
(* Step 3 of run: one iteration of the loop over the aligned dates         *)
(***************************************************************************)
HasRow(code, dt) == dt \in DOMAIN asset_data[code]

\* the codes of available_weights, in the order of asset_codes
available_codes(dt) == SelectSeq(asset_codes, LAMBDA c : HasRow(c, dt))

total_available_weight(dt) ==
    LET av == available_codes(dt)
    IN  RSumSeq([m \in 1..Len(av) |-> asset_weights(av[m])])

\* the configured weight used as it is, without re-normalisation
normalized_weight_raw(weight, total) == RDiv(weight, RInt(WeightScale))

normalized_weight(weight, total) == RDiv(weight, total)

\* shares bought of one asset on the first day
shares(csh, weight, total, price) ==
    LET amount_to_invest == RMul(csh, normalized_weight(weight, total))
    IN  RDiv(amount_to_invest, RInt(price))

\* the first-day purchase: holdings after the "if first_day" block
BuyHoldings(h, dt, csh) ==
    LET total == total_available_weight(dt)
    IN  IF RPos(total)
        THEN [c \in DOMAIN h |->
                IF HasRow(c, dt)
                THEN shares(csh, asset_weights(c), total, asset_data[c][dt])
                ELSE h[c]]
        ELSE h

\* "dt in asset_data[code].index and holdings[code] > 0"
Counted(h, code, dt) == HasRow(code, dt) /\ RPos(h[code])

has_data(h, dt) == \E c \in DOMAIN h : Counted(h, c, dt)

\* a valuation that overwrites instead of accumulating
total_value_last(h, dt, csh) ==
    LET counted == SelectSeq(asset_codes, LAMBDA c : Counted(h, c, dt))
    IN  IF counted = <<>> THEN csh
        ELSE RMul(h[counted[Len(counted)]], RInt(asset_data[counted[Len(counted)]][dt]))

\* total_value: remaining cash plus the value of the counted holdings
total_value(h, dt, csh) ==
    LET counted == SelectSeq(asset_codes, LAMBDA c : Counted(h, c, dt))
    IN  RAdd(csh, RSumSeq([m \in 1..Len(counted) |->
                              RMul(h[counted[m]], RInt(asset_data[counted[m]][dt]))]))

\* a point that always records the computed value, never the previous one
EquityPoint_nocarry(curve, dt, hasdata, value) == [date |-> strftime(dt), value |-> value]

\* the point appended to the equity curve for one date
EquityPoint(curve, dt, hasdata, value) ==
    IF hasdata \/ Len(curve) = 0
    THEN [date |-> strftime(dt), value |-> value]
    ELSE [date |-> strftime(dt), value |-> curve[Len(curve)].value]

SimulateDate ==
    /\ pc = "simulate"
    /\ i < Len(all_dates)
    /\ LET dt == all_dates[i + 1]
           h1 == IF first_day THEN BuyHoldings(holdings, dt, cash) ELSE holdings
           cash1 == IF first_day THEN Zero ELSE cash
       IN  /\ holdings' = h1
           /\ cash' = cash1
           /\ first_day' = FALSE
           /\ holdings_writes' = IF first_day /\ RPos(total_available_weight(dt))
                                 THEN holdings_writes + 1 ELSE holdings_writes
           /\ equity_curve' = Append(equity_curve,
                                     EquityPoint(equity_curve, dt, has_data(h1, dt),
                                                 total_value(h1, dt, cash1)))
    /\ i' = i + 1
    /\ UNCHANGED <<inputs, pc, k, asset_data, all_dates, rebalance_count,
                   drawdown_curve, result, error, metrics, benchmark_curves>>
    /\ UNCHANGED service_vars

(***************************************************************************)
(* Steps 4-5 of run: the equity series and its drawdown curve              *)
(***************************************************************************)
equity_series(curve) == [m \in 1..Len(curve) |-> curve[m].value]

\* Series.cummax at position m
RECURSIVE cummax(_, _)
cummax(v, m) == IF m = 1 THEN v[1] ELSE RMax(cummax(v, m - 1), v[m])

\* (equity_curve - cumulative_max) / cumulative_max at position m
drawdown(v, m) ==
    LET cm == cummax(v, m)
    IN  IF cm = Zero THEN NaN ELSE RDiv(RSub(v[m], cm), cm)

calculate_drawdown_curve(v, dates) ==
    IF Len(v) < 2 THEN <<>>
    ELSE [m \in 1..Len(dates) |-> [date |-> strftime(dates[m]), value |-> drawdown(v, m)]]


(***************************************************************************)
(* MetricsCalculator.  A float result is a rational, NaN, or (where the    *)
(* code takes a root or a power) an opaque term: a flat tuple              *)
(* <<tag, operands...>> of length > 2 that names the computation.  None    *)
(* is NoValue.  The equity values are all positive or all zero, so x / 0   *)
(* occurs only as 0 / 0.                                                   *)
(***************************************************************************)
risk_free_rate == Rat(3, 100)

trading_days_per_year == 252

IsRat(x) == Len(x) = 2 /\ x[2] > 0

\* operands of an opaque term
Opaque(tag, a, b) == <<tag>> \o a \o b

RECURSIVE Flatten(_)
Flatten(s) == IF s = <<>> THEN <<>> ELSE Head(s) \o Flatten(Tail(s))

\* float arithmetic with NaN propagation, on rationals and NaN
FAdd(x, y) == IF x = NaN \/ y = NaN THEN NaN ELSE RAdd(x, y)

FSub(x, y) == IF x = NaN \/ y = NaN THEN NaN ELSE RSub(x, y)

FDiv(x, y) == IF x = NaN \/ y = NaN \/ y = Zero THEN NaN ELSE RDiv(x, y)

FAbs(x) == IF x = NaN THEN NaN ELSE <<Abs(x[1]), x[2]>>

\* equity_curve.pct_change().dropna()
pct_change(v) ==
    LET raw == [m \in 1..(Len(v) - 1) |-> FSub(FDiv(v[m + 1], v[m]), One)]
    IN  SelectSeq(raw, LAMBDA r : r # NaN)

\* Series.std() (ddof = 1): NaN below two values, 0 for equal values
std(r) ==
    IF Len(r) < 2 THEN NaN
    ELSE IF \A m \in 1..Len(r) : r[m] = r[1] THEN Zero
    ELSE Opaque(1, <<Len(r)>>, Flatten(r))

\* x * np.sqrt(trading_days_per_year)
annualized(x) ==
    IF x = NaN \/ x = Zero THEN x ELSE Opaque(2, <<trading_days_per_year>>, x)

\* a total return that looks at the second value instead of the last
calculate_total_return_second(v) ==
    IF Len(v) < 2 THEN Zero ELSE FSub(FDiv(v[2], v[1]), One)

calculate_total_return(v) ==
    IF Len(v) < 2 THEN Zero ELSE FSub(FDiv(v[Len(v)], v[1]), One)

\* 365.25 days per year
DaysPerYear == Rat(1461, 4)

\* base ** (1 / years) - 1 for years > 0
cagr(base, years) ==
    IF base = NaN THEN NaN
    ELSE IF base = One THEN Zero
    ELSE IF base = Zero THEN RInt(-1)
    ELSE Opaque(3, base, years)

calculate_annual_return(v, start, end) ==
    IF Len(v) < 2 THEN Zero
    ELSE LET total_return == calculate_total_return(v)
             days == end - start
             years == RDiv(RInt(days), DaysPerYear)
         IN  IF ~RPos(years) THEN Zero
             ELSE cagr(FAdd(One, total_return), years)

\* Series.min(): NaN entries are skipped; NaN when nothing is left
SeriesMin(s) ==
    LET nums == {m \in 1..Len(s) : s[m] # NaN}
    IN  IF nums = {} THEN NaN
        ELSE s[CHOOSE m \in nums : \A n \in nums : ~RLess(s[n], s[m])]

calculate_max_drawdown(v) ==
    IF Len(v) < 2 THEN Zero
    ELSE SeriesMin([m \in 1..Len(v) |-> drawdown(v, m)])

calculate_volatility(returns) ==
    IF Len(returns) < 2 THEN Zero
    ELSE LET daily_vol == std(returns)
         IN  IF daily_vol = NaN \/ daily_vol = Zero THEN Zero
             ELSE annualized(daily_vol)

\* (annual_return - risk_free_rate) / denominator, denominator # 0
excess_ratio(tag, annual_return, denominator) ==
    IF annual_return = NaN \/ denominator = NaN THEN NaN
    ELSE IF annual_return = risk_free_rate THEN Zero
    ELSE Opaque(tag, annual_return, denominator)

calculate_sharpe_ratio(returns, annual_return) ==
    IF Len(returns) = 0 THEN NoValue
    ELSE LET volatility == calculate_volatility(returns)
         IN  IF volatility = Zero THEN NoValue
             ELSE excess_ratio(4, annual_return, volatility)

calculate_sortino_ratio(returns, annual_return) ==
    IF Len(returns) = 0 THEN NoValue
    ELSE LET downside_returns == SelectSeq(returns, LAMBDA r : r[1] < 0)
         IN  IF Len(downside_returns) = 0 THEN NoValue
             ELSE LET downside_vol == annualized(std(downside_returns))
                  IN  IF downside_vol = Zero THEN NoValue
                      ELSE excess_ratio(5, annual_return, downside_vol)

\* a Calmar ratio without the zero-drawdown guard
calculate_calmar_ratio_unguarded(annual_return, max_drawdown) ==
    IF annual_return = NaN \/ max_drawdown = NaN THEN NaN
    ELSE IF IsRat(annual_return) THEN FDiv(annual_return, FAbs(max_drawdown))
    ELSE Opaque(6, annual_return, max_drawdown)

calculate_calmar_ratio(annual_return, max_drawdown) ==
    IF max_drawdown = Zero THEN NoValue
    ELSE IF annual_return = NaN \/ max_drawdown = NaN THEN NaN
    ELSE IF IsRat(annual_return) THEN FDiv(annual_return, FAbs(max_drawdown))
    ELSE Opaque(6, annual_return, max_drawdown)

calculate_all_metrics(v, start, end) ==
    LET returns == pct_change(v)
        total_return == calculate_total_return(v)
        annual_return == calculate_annual_return(v, start, end)
        max_drawdown == calculate_max_drawdown(v)
        volatility == calculate_volatility(returns)
    IN  [total_return |-> total_return,
         annual_return |-> annual_return,
         max_drawdown |-> max_drawdown,
         volatility |-> volatility,
         sharpe_ratio |-> calculate_sharpe_ratio(returns, annual_return),
         sortino_ratio |-> calculate_sortino_ratio(returns, annual_return),
         calmar_ratio |-> calculate_calmar_ratio(annual_return, max_drawdown)]

ComputeMetrics ==
    /\ pc = "simulate"
    /\ i = Len(all_dates)
    /\ metrics' = calculate_all_metrics(equity_series(equity_curve),
                                        to_date_value(start_date), to_date_value(end_date))
    /\ drawdown_curve' = calculate_drawdown_curve(equity_series(equity_curve), all_dates)
    /\ pc' = "benchmarks"
    /\ UNCHANGED <<inputs, k, asset_data, all_dates, i, cash, holdings, first_day,
                   rebalance_count, equity_curve, result, error, holdings_writes,
                   benchmark_curves>>
    /\ UNCHANGED service_vars

(***************************************************************************)
(* Step 6 of run: _calculate_benchmark_curves                              *)
(***************************************************************************)
\* price_dict: date -> close of the benchmark rows in range
price_dict(data) == [d \in {to_date_value(r.date) : r \in data} |->
                        (CHOOSE r \in data : to_date_value(r.date) = d).close]

\* a value measured against the price itself instead of the baseline
benchmark_value_wrongbase(capital, price, first_price) ==
    RMul(capital, RAdd(One, RDiv(RSub(RInt(price), RInt(first_price)), RInt(price))))

\* initial_capital * (1 + (price - first_price) / first_price)
benchmark_value(capital, price, first_price) ==
    RMul(capital, RAdd(One, RDiv(RSub(RInt(price), RInt(first_price)), RInt(first_price))))

\* a date without a price that restarts from the capital
carried_point_reset(curve, date_str, capital) ==
    Append(curve, [date |-> date_str, value |-> capital])

\* "elif curve": a date without a price repeats the last emitted value
carried_point(curve, date_str, capital) ==
    IF curve # <<>>
    THEN Append(curve, [date |-> date_str, value |-> curve[Len(curve)].value])
    ELSE curve

\* the loop over all_dates from position m on; first_price is None or <<p>>
RECURSIVE benchmark_walk(_, _, _, _, _, _)
benchmark_walk(prices, dates, m, first_price, curve, capital) ==
    IF m > Len(dates) THEN curve
    ELSE LET date_only == to_date_value(dates[m])
             date_str == strftime(dates[m])
         IN  IF date_only \in DOMAIN prices
             THEN IF first_price = NoValue
                  THEN benchmark_walk(prices, dates, m + 1, <<prices[date_only]>>,
                                      Append(curve, [date |-> date_str, value |-> capital]),
                                      capital)
                  ELSE benchmark_walk(prices, dates, m + 1, first_price,
                                      Append(curve, [date |-> date_str,
                                                     value |-> benchmark_value(capital, prices[date_only],
                                                                               first_price[1])]),
                                      capital)
             ELSE benchmark_walk(prices, dates, m + 1, first_price,
                                 carried_point(curve, date_str, capital), capital)

\* a benchmark that is kept whatever the repositories return
benchmark_kept_always(code, start, end) == TRUE

\* neither "if not asset: continue" nor "if not data: continue" fires
benchmark_kept(code, start, end) ==
    /\ get_by_code(code) # NoValue
    /\ ~NoData(get_by_asset(code, start, end))

calculate_benchmark_curves(start, end, dates, capital) ==
    LET kept == SelectSeq(benchmarks, LAMBDA b : benchmark_kept(b.code, start, end))
        code_of(key) == (CHOOSE m \in 1..Len(kept) : kept[m].key = key)
    IN  [key \in {kept[m].key : m \in 1..Len(kept)} |->
            benchmark_walk(price_dict(get_by_asset(kept[code_of(key)].code, start, end)),
                           dates, 1, NoValue, <<>>, capital)]

ComputeBenchmarks ==
    /\ pc = "benchmarks"
    /\ benchmark_curves' = calculate_benchmark_curves(start_date, end_date, all_dates,
                                                      initial_capital)
    /\ pc' = "result"
    /\ UNCHANGED <<inputs, k, asset_data, all_dates, i, cash, holdings, first_day,
                   rebalance_count, equity_curve, drawdown_curve, result, error,
                   holdings_writes, metrics>>
    /\ UNCHANGED service_vars

(***************************************************************************)
(* Step 7 of run: the result record                                        *)
(***************************************************************************)
\* _sanitize_metric: NaN becomes None
sanitize_metric(value) == IF value = NoValue \/ value = NaN THEN NoValue ELSE value

\* "_sanitize_metric(x) or 0.0"
or_zero(value) == IF sanitize_metric(value) = NoValue THEN Zero ELSE value

\* a record that reports the number of simulated dates as rebalances
BacktestResult_counting(m, count, ec, dc, bc) ==
    [initial_capital |-> initial_capital,
     total_return |-> or_zero(m.total_return),
     annual_return |-> or_zero(m.annual_return),
     max_drawdown |-> or_zero(m.max_drawdown),
     sharpe_ratio |-> sanitize_metric(m.sharpe_ratio),
     sortino_ratio |-> sanitize_metric(m.sortino_ratio),
     calmar_ratio |-> sanitize_metric(m.calmar_ratio),
     volatility |-> or_zero(m.volatility),
     rebalance_count |-> IF rebalance_type = "monthly" THEN Len(ec) ELSE count,
     equity_curve |-> ec,
     drawdown_curve |-> dc,
     benchmark_curves |-> bc]

BacktestResult(m, count, ec, dc, bc) ==
    [initial_capital |-> initial_capital,
     total_return |-> or_zero(m.total_return),
     annual_return |-> or_zero(m.annual_return),
     max_drawdown |-> or_zero(m.max_drawdown),
     sharpe_ratio |-> sanitize_metric(m.sharpe_ratio),
     sortino_ratio |-> sanitize_metric(m.sortino_ratio),
     calmar_ratio |-> sanitize_metric(m.calmar_ratio),
     volatility |-> or_zero(m.volatility),
     rebalance_count |-> count,
     equity_curve |-> ec,
     drawdown_curve |-> dc,
     benchmark_curves |-> bc]

BuildResult ==
    /\ pc = "result"
    /\ result' = <<BacktestResult(metrics, rebalance_count, equity_curve, drawdown_curve,
                                  benchmark_curves)>>
    /\ pc' = "done"
    /\ UNCHANGED <<inputs, k, asset_data, all_dates, i, cash, holdings, first_day,
                   rebalance_count, equity_curve, drawdown_curve, error,
                   holdings_writes, metrics, benchmark_curves>>
    /\ UNCHANGED service_vars

Next ==
    \/ LoadAsset
    \/ AlignDates
    \/ SimulateDate
    \/ ComputeMetrics
    \/ ComputeBenchmarks
    \/ BuildResult

Spec == Init /\ [][Next]_vars

(***************************************************************************)
(* The benchmark curves over every placement of the benchmark rows, for    *)
(* a strategy that holds asset A only                                      *)
(***************************************************************************)
BenchInit ==
    /\ \E rows \in SUBSET {r \in AllRows : r.code = "A"},
          ba \in SUBSET BenchmarkCodes, brows \in SUBSET BenchmarkRows :
          /\ assets = {"A"} \cup ba
          /\ market_daily = rows \cup brows
    /\ allocation = <<Entry("A", 100)>>
    /\ start_date = DateTime(1, 0)
    /\ end_date \in {DateTime(d, 0) : d \in Days}
    /\ initial_capital = RInt(DefaultCapital)
    /\ rebalance_type = "monthly"
    /\ rebalance_threshold = NoValue
    /\ RunStart
    /\ ServicesIdle

BenchSpec == BenchInit /\ [][Next]_vars

(***************************************************************************)
(* MetricsCalculator applied to every equity value sequence of up to       *)
(* MaxDate positive values                                                 *)
(***************************************************************************)
EquityValues == {90, 100, 110}

MetricsInit ==
    /\ \E n \in Days : \E v \in [1..n -> EquityValues] :
          /\ all_dates = [m \in 1..n |-> DateTime(m, 0)]
          /\ equity_curve = [m \in 1..n |-> [date |-> strftime(DateTime(m, 0)),
                                             value |-> RInt(v[m] * 1000)]]
          /\ i = n
    /\ assets = {}
    /\ market_daily = {}
    /\ allocation = <<>>
    /\ start_date = DateTime(1, 0)
    /\ end_date \in {DateTime(d, 0) : d \in Days}
    /\ initial_capital = RInt(DefaultCapital)
    /\ rebalance_type = "monthly"
    /\ rebalance_threshold = NoValue
    /\ pc = "simulate"
    /\ k = 0
    /\ asset_data = <<>>
    /\ cash = Zero
    /\ holdings = <<>>
    /\ first_day = FALSE
    /\ rebalance_count = 0
    /\ drawdown_curve = <<>>
    /\ result = NoValue
    /\ error = NoValue
    /\ holdings_writes = 0
    /\ metrics = NoValue
    /\ benchmark_curves = <<>>
    /\ ServicesIdle

MetricsNext == ComputeMetrics

MetricsSpec == MetricsInit /\ [][MetricsNext]_vars

(***************************************************************************)
(* Properties                                                              *)
(***************************************************************************)
Invested == \E c \in DOMAIN holdings : RPos(holdings[c])

\* some held asset (holding > 0) has a row on the m-th aligned date
HeldHasData(m) == \E c \in DOMAIN holdings : RPos(holdings[c]) /\ HasRow(c, all_dates[m])

\* the sum of held quantity times close over the assets with a row on dt
ValueOfAssetsWithData(dt) ==
    LET with == SelectSeq(asset_codes, LAMBDA c : HasRow(c, dt))
    IN  RSumSeq([m \in 1..Len(with) |-> RMul(holdings[with[m]], RInt(asset_data[with[m]][dt]))])

\* the union of the configured assets' stored dates inside [start, end]
FilteredUnion ==
    {r.date : r \in {x \in market_daily :
                        /\ x.code \in CodeSet
                        /\ to_date_value(x.date) >= to_date_value(start_date)
                        /\ to_date_value(x.date) <= to_date_value(end_date)}}

\* C1: while the weights of the assets with data have summed to zero on
\* every aligned date processed so far, the simulator is still uninitialized
\* (first_day set, cash = initial_capital, nothing held); and once a
\* processed date had a positive available weight, a position is held.
C1_RetryOnZeroWeight ==
    i >= 1 =>
        /\ (\A j \in 1..i : ~RPos(total_available_weight(all_dates[j])))
              => (first_day /\ cash = initial_capital /\ ~Invested)
        /\ (\E j \in 1..i : RPos(total_available_weight(all_dates[j])))
              => Invested

\* C2: on the initializing date with a positive available weight sum, the
\* effective weights sum to 1, the amounts invested sum to initial_capital,
\* cash is 0 and the value recorded for that date is initial_capital.
C2_FullyInvested ==
    (i >= 1 /\ RPos(total_available_weight(all_dates[1]))) =>
        LET dt == all_dates[1]
            av == available_codes(dt)
            total == total_available_weight(dt)
        IN  /\ RSumSeq([m \in 1..Len(av) |-> normalized_weight(asset_weights(av[m]), total)]) = One
            /\ ValueOfAssetsWithData(dt) = initial_capital
            /\ cash = Zero
            /\ equity_curve[1].value = initial_capital

\* C2 witness: invested on a first date where the available weights sum to
\* less than 1
C2_Witness ==
    /\ i >= 1
    /\ RPos(total_available_weight(all_dates[1]))
    /\ RLess(total_available_weight(all_dates[1]), RInt(WeightScale))
    /\ equity_curve[1].value = initial_capital

Scenario ==
    /\ allocation = <<Entry("A", 60), Entry("B", 40)>>
    /\ initial_capital = RInt(100000)
    /\ to_date_value(start_date) = 1
    /\ to_date_value(end_date) = 3
    /\ \A c \in Codes : {to_date_value(r.date) : r \in get_by_asset(c, start_date, end_date)} = 1..3

\* C3: once invested, every recorded point of a date with data for a held
\* asset equals cash (0) plus the sum of quantity times close over exactly
\* the assets with data on that date; the A/B scenario yields
\* 100000, 106000, 98000.
C3_Valuation ==
    /\ \A m \in 1..Len(equity_curve) :
          HeldHasData(m) => equity_curve[m].value = RAdd(Zero, ValueOfAssetsWithData(all_dates[m]))
    /\ (Scenario /\ pc = "done")
          => equity_series(equity_curve) = <<RInt(100000), RInt(106000), RInt(98000)>>

C3_Witness ==
    /\ Scenario
    /\ pc = "done"
    /\ equity_series(result[1].equity_curve) = <<RInt(100000), RInt(106000), RInt(98000)>>

\* C4: for every aligned date other than the first, if no held asset has
\* price data on it, its recorded value equals the preceding date's value.
C4_CarryForward ==
    \A m \in 2..Len(equity_curve) :
        ~HeldHasData(m) => equity_curve[m].value = equity_curve[m - 1].value

\* C4 witness: an invested portfolio carried over a date without held data
C4_Witness ==
    /\ Invested
    /\ \E m \in 2..Len(equity_curve) :
          /\ ~HeldHasData(m)
          /\ RPos(equity_curve[m].value)
          /\ equity_curve[m].value = equity_curve[m - 1].value

\* C5: a run over at least one aligned date writes the holdings exactly
\* once, on the first aligned date.
C5_HoldingsWrittenOnce ==
    /\ (pc = "done" /\ Len(all_dates) >= 1) => holdings_writes = 1
    /\ i >= 2 => holdings_writes = 1

\* C6: a first equity point recorded while no held asset has data on that
\* date has the value initial_capital.
C6_FirstPointFallback ==
    (Len(equity_curve) >= 1 /\ ~HeldHasData(1)) => equity_curve[1].value = initial_capital

\* C7: a successful run's equity curve has one point per aligned date, dated
\* with the aligned dates, in strictly ascending order.
C7_OnePointPerDate ==
    pc = "done" =>
        LET curve == result[1].equity_curve
        IN  /\ Len(curve) = Len(all_dates)
            /\ \A m \in 1..Len(curve) : curve[m].date = strftime(all_dates[m])
            /\ \A m \in 1..Len(curve) : \A n \in 1..Len(curve) :
                  m < n => (DtLess(all_dates[m], all_dates[n]) /\ StrLess(curve[m].date, curve[n].date))

\* C7 witness: a finished run over several dates, one of them carried forward
C7_Witness ==
    /\ pc = "done"
    /\ Len(result[1].equity_curve) >= 2
    /\ \E m \in 2..Len(all_dates) : ~HeldHasData(m)

\* C8: whenever the union of the per-asset dates restricted to [start, end]
\* is empty, the run returns no result.
C8_FailsOnEmptyUnion ==
    FilteredUnion = {} => (pc # "done" /\ result = NoValue)

AssetUnusable(c) == c \notin assets \/ get_by_asset(c, start_date, end_date) = {}

\* C9: if a configured asset is not found or has no rows in range, the run
\* stops in the loading step: no date is simulated, no equity point and no
\* result exist, and the loading step cannot be passed.
C9_FailsBeforeSimulation ==
    (\E c \in CodeSet : AssetUnusable(c)) =>
        /\ pc \in {"load", "failed"}
        /\ k < Len(asset_codes)
        /\ i = 0
        /\ all_dates = <<>>
        /\ equity_curve = <<>>
        /\ result = NoValue
        /\ pc = "failed" => error # NoValue

\* C9 witness: the run failed on an asset without rows after loading another
C9_Witness ==
    /\ pc = "failed"
    /\ k = 1
    /\ asset_codes[2] \in assets
    /\ get_by_asset(asset_codes[2], start_date, end_date) = {}
    /\ result = NoValue

\* C10: the drawdown curve of a result has one point per equity-curve point,
\* with the same date, for every equity-curve length n >= 1.
C10_DrawdownPerPoint ==
    (pc = "done" /\ Len(result[1].equity_curve) >= 1) =>
        LET ec == result[1].equity_curve
            dc == result[1].drawdown_curve
        IN  /\ Len(dc) = Len(ec)
            /\ \A m \in 1..Len(ec) : dc[m].date = ec[m].date

MetricsComputed == pc \in {"benchmarks", "result", "done"}

\* C11: every drawdown_curve value is <= 0 and max_drawdown is the minimum
\* of the drawdown_curve values, for every equity value sequence.
C11_MaxDrawdownIsCurveMinimum ==
    MetricsComputed =>
        /\ \A m \in 1..Len(drawdown_curve) :
              drawdown_curve[m].value # NaN /\ ~RPos(drawdown_curve[m].value)
        /\ \E m \in 1..Len(drawdown_curve) : drawdown_curve[m].value = metrics.max_drawdown
        /\ \A m \in 1..Len(drawdown_curve) :
              ~RLess(drawdown_curve[m].value, metrics.max_drawdown)

\* C12: no metric returned by the MetricsCalculator functions is NaN; an
\* undefined metric is None.
C12_NoNaNMetric ==
    MetricsComputed =>
        /\ metrics.total_return # NaN
        /\ metrics.annual_return # NaN
        /\ metrics.max_drawdown # NaN
        /\ metrics.volatility # NaN
        /\ metrics.sharpe_ratio # NaN
        /\ metrics.sortino_ratio # NaN
        /\ metrics.calmar_ratio # NaN

\* C13: with exactly one aligned date, annual_return and volatility are 0
\* and sharpe_ratio, sortino_ratio and calmar_ratio are absent.
C13_SingleDateMetrics ==
    (MetricsComputed /\ Len(all_dates) = 1) =>
        /\ metrics.annual_return = Zero
        /\ metrics.volatility = Zero
        /\ metrics.sharpe_ratio = NoValue
        /\ metrics.sortino_ratio = NoValue
        /\ metrics.calmar_ratio = NoValue

C13_Witness ==
    /\ pc = "done"
    /\ Len(all_dates) = 1
    /\ Len(equity_curve) = 1
    /\ metrics.calmar_ratio = NoValue
    /\ result[1].annual_return = Zero

\* C14: total_return is the last value over the first minus 1 for n >= 2,
\* whatever the values in between, and 0 for n < 2.
C14_TotalReturn ==
    MetricsComputed =>
        LET v == equity_series(equity_curve)
            n == Len(v)
        IN  /\ (n >= 2 /\ v[1] # Zero)
                  => metrics.total_return = RSub(RDiv(v[n], v[1]), One)
            /\ n < 2 => metrics.total_return = Zero

C14_Witness ==
    /\ MetricsComputed
    /\ Len(equity_curve) >= 3
    /\ equity_curve[2].value # equity_curve[Len(equity_curve)].value
    /\ equity_curve[1].value # equity_curve[Len(equity_curve)].value
    /\ RPos(equity_curve[1].value)

BenchmarksComputed == pc \in {"result", "done"}

\* the stored price of a benchmark on an aligned date, inside the range
BenchRow(code, dt) ==
    {r \in market_daily :
        /\ r.code = code
        /\ to_date_value(r.date) = to_date_value(dt)
        /\ to_date_value(r.date) >= to_date_value(start_date)
        /\ to_date_value(r.date) <= to_date_value(end_date)}

Priced(code, m) == BenchRow(code, all_dates[m]) # {}

PriceAt(code, m) == (CHOOSE r \in BenchRow(code, all_dates[m]) : TRUE).close

\* the first aligned date with a price of the benchmark
IsBaseline(code, m) == Priced(code, m) /\ \A n \in 1..(m - 1) : ~Priced(code, n)

\* the positions of the points of a curve dated with the m-th aligned date
PointsOf(curve, m) == {j \in 1..Len(curve) : curve[j].date = strftime(all_dates[m])}

\* C15: the first aligned date with a benchmark price emits initial_capital;
\* every later aligned date with a price p emits
\* initial_capital * (1 + (p - p0) / p0) for the price p0 of that first date.
C15_BenchmarkValue ==
    BenchmarksComputed =>
        \A b \in {benchmarks[x] : x \in 1..Len(benchmarks)} :
            b.key \in DOMAIN benchmark_curves =>
                \A f \in 1..Len(all_dates) : IsBaseline(b.code, f) =>
                    \A m \in f..Len(all_dates) : Priced(b.code, m) =>
                        LET curve == benchmark_curves[b.key]
                            p0 == PriceAt(b.code, f)
                            p == PriceAt(b.code, m)
                            expected == IF m = f THEN initial_capital
                                        ELSE RMul(initial_capital,
                                                  RAdd(One, Rat(p - p0, p0)))
                        IN  /\ Cardinality(PointsOf(curve, m)) = 1
                            /\ \A j \in PointsOf(curve, m) : curve[j].value = expected

\* C15 witness: a curve with a baseline and a later price that differs
C15_Witness ==
    /\ pc = "done"
    /\ \E b \in {benchmarks[x] : x \in 1..Len(benchmarks)} :
          /\ b.key \in DOMAIN benchmark_curves
          /\ \E f, m \in 1..Len(all_dates) :
                /\ IsBaseline(b.code, f)
                /\ m > f + 1
                /\ Priced(b.code, m)
                /\ Priced(b.code, f + 1)
                /\ PriceAt(b.code, m) # PriceAt(b.code, f)
                /\ \E j \in PointsOf(result[1].benchmark_curves[b.key], m) :
                      result[1].benchmark_curves[b.key][j].value # initial_capital

\* C16: an aligned date without a benchmark price repeats the previously
\* emitted value when it comes after the baseline date, and emits nothing
\* when it comes before the first benchmark price.
C16_BenchmarkCarryForward ==
    BenchmarksComputed =>
        \A b \in {benchmarks[x] : x \in 1..Len(benchmarks)} :
            b.key \in DOMAIN benchmark_curves =>
                \A m \in 1..Len(all_dates) : ~Priced(b.code, m) =>
                    LET curve == benchmark_curves[b.key]
                    IN  IF \E f \in 1..(m - 1) : Priced(b.code, f)
                        THEN /\ Cardinality(PointsOf(curve, m)) = 1
                             /\ \A j \in PointsOf(curve, m) :
                                   /\ j > 1
                                   /\ curve[j - 1].date = strftime(all_dates[m - 1])
                                   /\ curve[j].value = curve[j - 1].value
                        ELSE PointsOf(curve, m) = {}

\* C16 witness: one curve skips a leading date without a price, and one
\* curve carries a changed value over a later date without a price
C16_Witness ==
    /\ pc = "done"
    /\ \E b \in {benchmarks[x] : x \in 1..Len(benchmarks)} :
          /\ b.key \in DOMAIN benchmark_curves
          /\ ~Priced(b.code, 1)
          /\ Len(benchmark_curves[b.key]) >= 1
          /\ PointsOf(benchmark_curves[b.key], 1) = {}
    /\ \E b \in {benchmarks[x] : x \in 1..Len(benchmarks)} :
          /\ b.key \in DOMAIN benchmark_curves
          /\ \E m \in 3..Len(all_dates) :
                /\ ~Priced(b.code, m)
                /\ Priced(b.code, m - 1)
                /\ \E j \in PointsOf(benchmark_curves[b.key], m) :
                      /\ benchmark_curves[b.key][j].value # initial_capital
                      /\ benchmark_curves[b.key][j].value
                            = benchmark_curves[b.key][j - 1].value

\* the benchmark is registered and has a stored row inside the range
BenchmarkUsable(code) ==
    /\ code \in assets
    /\ \E r \in market_daily :
          /\ r.code = code
          /\ to_date_value(r.date) >= to_date_value(start_date)
          /\ to_date_value(r.date) <= to_date_value(end_date)

\* C17: a benchmark that is not registered or has no price in range is left
\* out of benchmark_curves, the other benchmarks are kept, and a run fails
\* only because of a configured asset, never because of a benchmark.
C17_BenchmarkOmitted ==
    /\ pc = "done" =>
          /\ \A x \in 1..Len(benchmarks) :
                benchmarks[x].key \in DOMAIN result[1].benchmark_curves
                    <=> BenchmarkUsable(benchmarks[x].code)
          /\ Len(result[1].equity_curve) = Len(all_dates)
    /\ pc = "failed" => \E c \in CodeSet : AssetUnusable(c)

\* C17 witness: a finished run without the unregistered sh benchmark and
\* with the hs300 benchmark and the equity curve
C17_Witness ==
    /\ pc = "done"
    /\ "000001" \notin assets
    /\ \E r \in market_daily : r.code = "000001"
    /\ DOMAIN result[1].benchmark_curves = {"hs300"}
    /\ Len(result[1].benchmark_curves["hs300"]) >= 1
    /\ Len(result[1].equity_curve) >= 1

\* C18: the aligned dates are exactly the union of the configured assets'
\* dates inside [start, end], both bounds included, without duplicates and
\* strictly ascending.
C18_AlignedDates ==
    pc \notin {"load", "failed"} =>
        /\ {all_dates[m] : m \in 1..Len(all_dates)} = FilteredUnion
        /\ \A m, n \in 1..Len(all_dates) : m < n => DtLess(all_dates[m], all_dates[n])

\* C18 witness: two assets, a date that only one of them has, the first and
\* last aligned dates on the bounds, and a stored row outside the range
C18_Witness ==
    /\ pc = "done"
    /\ Len(asset_codes) = 2
    /\ Len(all_dates) >= 2
    /\ \E m \in 1..Len(all_dates) : \E c, d \in CodeSet :
          HasRow(c, all_dates[m]) /\ ~HasRow(d, all_dates[m])
    /\ to_date_value(all_dates[1]) = to_date_value(start_date)
    /\ to_date_value(all_dates[Len(all_dates)]) = to_date_value(end_date)
    /\ end_date.hour = 0
    /\ \E r \in market_daily :
          r.code \in CodeSet /\ to_date_value(r.date) > to_date_value(end_date)

\* C19: no step of run changes the stored assets, the stored market-data
\* rows or the strategy, on the path to a result and on the path to an error.
C19_InputsUnchanged ==
    [][/\ assets' = assets
       /\ market_daily' = market_daily
       /\ allocation' = allocation
       /\ rebalance_type' = rebalance_type
       /\ rebalance_threshold' = rebalance_threshold]_vars

\* C19 witness: both a returned and a raised run read stored rows
C19_Witness ==
    /\ pc \in {"done", "failed"}
    /\ k >= 1
    /\ \E r \in market_daily : r.code = asset_codes[1]

\* C20: the rebalance_count of every result is 0, whatever the strategy's
\* rebalance_type and rebalance_threshold.
C20_RebalanceCountZero ==
    pc = "done" => result[1].rebalance_count = 0

C20_Witness ==
    /\ pc = "done"
    /\ rebalance_type = "threshold"
    /\ rebalance_threshold # NoValue
    /\ Len(result[1].equity_curve) >= 2
    /\ result[1].rebalance_count = 0

(***************************************************************************)
(* The strategies API (backend/api/routes/strategies.py): one behaviour    *)
(* is a sequence of create_strategy and update_strategy requests, each     *)
(* handled on its own database session                                     *)
(***************************************************************************)
MaxStrategies == 2

StrategyNames == {"s1", "s2"}

\* the allocation dicts a client may send, weights in hundredths: summing
\* to 1 (one of them with a negative weight, which nothing forbids), and
\* summing to 0, 0.6, 0.8 and 1.2
RequestAllocations ==
    {<<Entry("A", 100)>>,
     <<Entry("A", 60), Entry("B", 40)>>,
     <<Entry("A", 150), Entry("B", -50)>>,
     <<>>,
     <<Entry("A", 60)>>,
     <<Entry("A", 40), Entry("B", 40)>>,
     <<Entry("A", 60), Entry("B", 60)>>}

\* the engine is not running
EngineIdle ==
    /\ assets = {}
    /\ market_daily = {}
    /\ allocation = <<>>
    /\ start_date = DateTime(1, 0)
    /\ end_date = DateTime(1, 0)
    /\ initial_capital = RInt(DefaultCapital)
    /\ rebalance_type = "monthly"
    /\ rebalance_threshold = NoValue
    /\ RunStart

\* sum(strategy_data.allocation.values()), in hundredths
total_weight(al) == RSumSeq([m \in 1..Len(al) |-> RInt(al[m].weight)])[1]

\* a validation that accepts every allocation
weights_rejected_never(al) == FALSE

\* abs(total_weight - 1.0) > 0.01
weights_rejected(al) == Abs(total_weight(al) - WeightScale) > WeightTolerance

\* StrategyRepository.get_by_name
get_by_name(name) == {m \in 1..Len(strategies) : strategies[m].name = name}

\* POST /strategies
create_strategy ==
    \E name \in StrategyNames, al \in RequestAllocations :
        /\ Len(strategies) < MaxStrategies
        /\ request' = [op |-> "create", id |-> 0, name |-> <<name>>, allocation |-> <<al>>]
        /\ IF get_by_name(name) # {}
           THEN http_status' = 400 /\ UNCHANGED strategies
           ELSE IF weights_rejected(al)
           THEN http_status' = 400 /\ UNCHANGED strategies
           ELSE /\ strategies' = Append(strategies, [name |-> name, allocation |-> al])
                /\ http_status' = 200
        /\ UNCHANGED <<engine_vars, cache_vars, login_vars, market_vars>>

\* PUT /strategies/{strategy_id}; a field that is None is sent as <<>>.  The
\* handler assigns into the session's object and only repo.update commits;
\* an HTTPException or a failed commit closes the session without a commit.
update_strategy ==
    \E id \in 1..MaxStrategies, name \in {<<>>} \cup {<<n>> : n \in StrategyNames},
       al \in {<<>>} \cup {<<a>> : a \in RequestAllocations} :
        /\ request' = [op |-> "update", id |-> id, name |-> name, allocation |-> al]
        /\ IF id > Len(strategies)
           THEN http_status' = 404 /\ UNCHANGED strategies
           ELSE LET named == IF name # <<>>
                             THEN [strategies[id] EXCEPT !.name = name[1]]
                             ELSE strategies[id]
                IN  IF al # <<>> /\ weights_rejected(al[1])
                    THEN http_status' = 400 /\ UNCHANGED strategies
                    ELSE LET pending == IF al # <<>>
                                        THEN [named EXCEPT !.allocation = al[1]]
                                        ELSE named
                         IN  IF \E m \in get_by_name(pending.name) : m # id
                             THEN http_status' = 500 /\ UNCHANGED strategies
                             ELSE /\ strategies' = [strategies EXCEPT ![id] = pending]
                                  /\ http_status' = 200
        /\ UNCHANGED <<engine_vars, cache_vars, login_vars, market_vars>>

StrategyInit == EngineIdle /\ ServicesIdle

StrategyNext == create_strategy \/ update_strategy

StrategySpec == StrategyInit /\ [][StrategyNext]_vars

\* every stored strategy has weights that sum to 1 within 0.01
StoredWeightsValid ==
    \A m \in 1..Len(strategies) :
        Abs(total_weight(strategies[m].allocation) - WeightScale) <= WeightTolerance

\* the request handled by this step carries weights off 1 by more than 0.01
ViolatingRequest ==
    /\ request'.allocation # <<>>
    /\ Abs(total_weight(request'.allocation[1]) - WeightScale) > WeightTolerance

\* C21: every stored strategy has weights summing to 1 within 0.01, and a
\* request whose weights violate this gets status 400 and leaves the stored
\* strategies unchanged.
C21_ViolatingRequestIs400 ==
    /\ []StoredWeightsValid
    /\ [][ViolatingRequest => (http_status' = 400 /\ strategies' = strategies)]_vars

\* C21 as the code has it: every stored strategy has weights summing to 1
\* within 0.01; a request whose weights violate this leaves the stored
\* strategies unchanged and gets status 400, except that update_strategy
\* answers 404 first when the strategy id does not exist.
C21_ViolatingRequestRejected ==
    /\ []StoredWeightsValid
    /\ [][ViolatingRequest =>
            /\ strategies' = strategies
            /\ IF request'.op = "update" /\ request'.id > Len(strategies)
               THEN http_status' = 404
               ELSE http_status' = 400]_vars

\* C21 witness: an update of a stored strategy was rejected for its weights
C21_Witness ==
    /\ request.op = "update"
    /\ request.id <= Len(strategies)
    /\ request.allocation # <<>>
    /\ request.name # <<>>
    /\ weights_rejected(request.allocation[1])
    /\ http_status = 400
    /\ strategies[request.id].name # request.name[1]

(***************************************************************************)
(* CacheManager (data_fetcher/cache_manager.py): one behaviour is a        *)
(* sequence of get, set, update and clear calls on one cache directory     *)
(* while the clock advances.  A file name is a sequence of characters, a   *)
(* frame is a sequence of rows.                                            *)
(***************************************************************************)
MaxClock == 2

\* CacheManager(expire_hours=...), in hours
expire_hours == 1

\* the value that json.loads cannot read back as CacheMetadata
Unreadable == -1

DataTypes == {<<"i", "n", "d", "e", "x">>, <<"e", "t", "f">>}

\* the keys the callers use: two indices and one ETF
CacheEntries ==
    {<<<<"i", "n", "d", "e", "x">>, <<"3", "0", "0">>>>,
     <<<<"i", "n", "d", "e", "x">>, <<"9", "0", "5">>>>,
     <<<<"e", "t", "f">>, <<"8", "8", "0">>>>}

Row(d, c) == [date |-> d, close |-> c]

\* frames handed to set and update: empty, one row, and two rows out of
\* date order
Frames ==
    {<<>>,
     <<Row(1, 10)>>,
     <<Row(2, 21), Row(1, 11)>>}

\* the frames stored under an entry: every frame for the first index, the
\* one-row frame for the other entries
FramesFor(e) ==
    IF e[2] = <<"3", "0", "0">> THEN Frames ELSE {<<Row(1, 10)>>}

\* f"{data_type}_{code}"
get_cache_key(data_type, code) == data_type \o <<"_">> \o code

CacheKeys == {get_cache_key(e[1], e[2]) : e \in CacheEntries}

\* the idle cache directory: no file for any key
NoFiles == [key \in CacheKeys |-> <<>>]

\* glob(f"{prefix}*"): the name starts with the prefix
HasPrefix(name, prefix) ==
    /\ Len(name) >= Len(prefix)
    /\ SubSeq(name, 1, Len(prefix)) = prefix

FrameDates(df) == {df[m].date : m \in 1..Len(df)}

\* an expiry test that never fires
expired_never(meta_value) == FALSE

\* datetime.now() > meta.expires_at
expired(meta_value) == now > meta_value

\* CacheManager.get
get(key) ==
    IF parquet[key] = <<>> \/ meta[key] = <<>>
    THEN [some |-> FALSE, df |-> <<>>, raised |-> FALSE]
    ELSE IF meta[key][1] = Unreadable
    THEN [some |-> FALSE, df |-> <<>>, raised |-> FALSE]
    ELSE IF expired(meta[key][1])
    THEN [some |-> FALSE, df |-> <<>>, raised |-> FALSE]
    ELSE [some |-> TRUE, df |-> parquet[key][1], raised |-> FALSE]

\* df["date"].min().strftime(...) raises on a frame without rows
set_raises(df) == df = <<>>

\* the .json files after CacheManager.set: written only when the frame has
\* rows, because the metadata is built after to_parquet has written the data
meta_after_set(key, df) ==
    IF set_raises(df) THEN meta ELSE [meta EXCEPT ![key] = <<now + expire_hours>>]

\* drop_duplicates(subset=["date"]): the first row of each date is kept
drop_duplicates(df) ==
    SelectSeq([m \in 1..Len(df) |-> [row |-> df[m],
                                      first |-> \A n \in 1..(m - 1) : df[n].date # df[m].date]],
              LAMBDA x : x.first)

RECURSIVE sort_values(_)
\* sort_values("date") of a frame without repeated dates
sort_values(df) ==
    IF df = <<>> THEN <<>>
    ELSE LET m == CHOOSE n \in 1..Len(df) : \A o \in 1..Len(df) : df[n].date <= df[o].date
         IN  <<df[m]>> \o sort_values(SubSeq(df, 1, m - 1) \o SubSeq(df, m + 1, Len(df)))

\* a merge that keeps only the new rows
merged_new_only(existing, new_df) == new_df

\* the merged frame of CacheManager.update
merged(existing, new_df) ==
    IF ~existing.some
    THEN new_df
    ELSE LET kept == drop_duplicates(existing.df \o new_df)
         IN  sort_values([m \in 1..Len(kept) |-> kept[m].row])

\* a clear by type that removes every file
cleared_all(key, data_type, code) == TRUE

\* the files CacheManager.clear unlinks; an argument that is None is <<>>
cleared(key, data_type, code) ==
    IF data_type = <<>> THEN TRUE
    ELSE IF code = <<>> THEN HasPrefix(key, data_type[1] \o <<"_">>)
    ELSE key = get_cache_key(data_type[1], code[1])

\* cache.set(data_type, code, df)
cache_set ==
    \E e \in CacheEntries : \E df \in FramesFor(e) :
        LET key == get_cache_key(e[1], e[2])
        IN  /\ cache_call' = [op |-> "set", key |-> <<key>>, df |-> df, type |-> <<>>,
                              seq |-> 1 - cache_call.seq]
            /\ parquet' = [parquet EXCEPT ![key] = <<df>>]
            /\ last_stored' = [last_stored EXCEPT ![key] = <<df>>]
            /\ meta' = meta_after_set(key, df)
            /\ cache_ret' = [some |-> FALSE, df |-> <<>>, raised |-> set_raises(df)]
            /\ UNCHANGED <<engine_vars, strategy_vars, login_vars, market_vars, now>>

\* cache.get(data_type, code)
cache_get ==
    \E e \in CacheEntries :
        LET key == get_cache_key(e[1], e[2])
        IN  /\ cache_call' = [op |-> "get", key |-> <<key>>, df |-> <<>>, type |-> <<>>,
                              seq |-> 1 - cache_call.seq]
            /\ cache_ret' = get(key)
            /\ UNCHANGED <<engine_vars, strategy_vars, login_vars, market_vars, parquet, meta, now, last_stored>>

\* cache.update(data_type, code, new_df)
cache_update ==
    \E e \in CacheEntries : \E new_df \in FramesFor(e) :
        LET key == get_cache_key(e[1], e[2])
            merged_df == merged(get(key), new_df)
        IN  /\ cache_call' = [op |-> "update", key |-> <<key>>, df |-> new_df,
                              type |-> <<>>, seq |-> 1 - cache_call.seq]
            /\ parquet' = [parquet EXCEPT ![key] = <<merged_df>>]
            /\ last_stored' = [last_stored EXCEPT ![key] = <<merged_df>>]
            /\ meta' = meta_after_set(key, merged_df)
            /\ cache_ret' = [some |-> ~set_raises(merged_df), df |-> merged_df,
                             raised |-> set_raises(merged_df)]
            /\ UNCHANGED <<engine_vars, strategy_vars, login_vars, market_vars, now>>

\* cache.clear(), cache.clear(data_type) and cache.clear(data_type, code)
cache_clear ==
    \E data_type \in {<<>>} \cup {<<t>> : t \in DataTypes},
       e \in {<<>>} \cup {<<x>> : x \in CacheEntries} :
        LET code == IF e = <<>> THEN <<>> ELSE <<e[1][2]>>
        IN  /\ (data_type = <<>> => e = <<>>)
            /\ (e # <<>> => data_type = <<e[1][1]>>)
            /\ cache_call' = [op |-> "clear", key |-> code, df |-> <<>>,
                              type |-> data_type, seq |-> 1 - cache_call.seq]
            /\ parquet' = [key \in CacheKeys |->
                              IF cleared(key, data_type, code) THEN <<>> ELSE parquet[key]]
            /\ meta' = [key \in CacheKeys |->
                           IF cleared(key, data_type, code) THEN <<>> ELSE meta[key]]
            /\ last_stored' = [key \in CacheKeys |->
                                  IF parquet'[key] = <<>> THEN <<>> ELSE last_stored[key]]
            /\ cache_ret' = [some |-> FALSE, df |-> <<>>, raised |-> FALSE]
            /\ UNCHANGED <<engine_vars, strategy_vars, login_vars, market_vars, now>>

\* an hour passes
Tick ==
    /\ now < MaxClock
    /\ now' = now + 1
    /\ UNCHANGED <<engine_vars, strategy_vars, login_vars, market_vars, parquet, meta, cache_call, cache_ret,
                   last_stored>>

\* a metadata file is damaged on disk
DamageMeta ==
    \E key \in CacheKeys :
        /\ meta[key] # <<>>
        /\ meta[key] # <<Unreadable>>
        /\ meta' = [meta EXCEPT ![key] = <<Unreadable>>]
        /\ UNCHANGED <<engine_vars, strategy_vars, login_vars, market_vars, parquet, now, cache_call, cache_ret,
                       last_stored>>

CacheInit ==
    /\ EngineIdle
    /\ StrategyIdle
    /\ LoginIdle
    /\ MarketIdle
    /\ parquet = NoFiles
    /\ meta = NoFiles
    /\ now = 0
    /\ cache_call = [op |-> "none", key |-> <<>>, df |-> <<>>, type |-> <<>>, seq |-> 0]
    /\ cache_ret = [some |-> FALSE, df |-> <<>>, raised |-> FALSE]
    /\ last_stored = NoFiles

CacheNext == cache_set \/ cache_get \/ cache_update \/ cache_clear \/ Tick \/ DamageMeta

CacheSpec == CacheInit /\ [][CacheNext]_vars

\* this step is a CacheManager call of the given kind
CacheCall(op) == cache_call' # cache_call /\ cache_call'.op = op

C23_UpdateCoversAllDates ==
    [][CacheCall("update") =>
          LET key == cache_call'.key[1]
              previous == IF parquet[key] # <<>> /\ meta[key] # <<>>
                          THEN parquet[key][1] ELSE <<>>
              out == cache_ret'.df
          IN  /\ cache_ret'.some
              /\ \A m, n \in 1..Len(out) : m # n => out[m].date # out[n].date
              /\ FrameDates(previous) \cup FrameDates(cache_call'.df) \subseteq FrameDates(out)
              /\ parquet'[key] = <<out>>]_vars

\* the entry of a key is named by a clear call with these arguments
Targeted(e, data_type, code) ==
    \/ data_type = <<>>
    \/ data_type = <<e[1]>> /\ (code = <<>> \/ code = <<e[2]>>)

\* C24: clear removes exactly the targeted entries: all of them without
\* arguments, those of one type with a data_type, one entry with data_type
\* and code; every other entry keeps its files.
C24_ClearRemovesTargeted ==
    [][CacheCall("clear") =>
          \A e \in CacheEntries :
              LET key == get_cache_key(e[1], e[2])
              IN  IF Targeted(e, cache_call'.type, cache_call'.key)
                  THEN parquet'[key] = <<>> /\ meta'[key] = <<>>
                  ELSE parquet'[key] = parquet[key] /\ meta'[key] = meta[key]]_vars

\* C24 witness: after clear(data_type="index") the ETF entry is still
\* retrievable and no index entry is left
C24_Witness ==
    /\ cache_call.op = "clear"
    /\ cache_call.type = <<<<"i", "n", "d", "e", "x">>>>
    /\ cache_call.key = <<>>
    /\ \A key \in CacheKeys :
          IF HasPrefix(key, <<"e">>)
          THEN get(key).some
          ELSE parquet[key] = <<>> /\ meta[key] = <<>>

(***************************************************************************)
(* The provider login of BaostockFetcher                                   *)
(* (data_fetcher/baostock_fetcher.py): one behaviour is a sequence of      *)
(* _ensure_login, _safe_logout and fetch calls made one after the other    *)
(* by any instances; the count is a class attribute                        *)
(***************************************************************************)
MaxCalls == 4

\* @retry(stop=stop_after_attempt(3))
stop_after_attempt == 3

\* a count that grows even when the provider refuses the login
count_after_ensure_always(count, ok) == count + 1

\* _login_count after _ensure_login; ok is the provider's answer to bs.login
count_after_ensure(count, ok) == IF count = 0 /\ ~ok THEN count ELSE count + 1

\* _ensure_login raises when the provider refuses the login
ensure_raises(count, ok) == count = 0 /\ ~ok

\* the effect of one _ensure_login call on the shared session
EnsureLogin(ok) ==
    /\ ensure_ok < MaxCalls
    /\ login_count' = count_after_ensure(login_count, ok)
    /\ bs_session' = IF login_count = 0 THEN ok ELSE bs_session
    /\ ensure_ok' = IF ensure_raises(login_count, ok) THEN ensure_ok ELSE ensure_ok + 1
    /\ login_call' = [op |-> "ensure", seq |-> 1 - login_call.seq,
                      bs_login |-> login_count = 0, bs_logout |-> FALSE,
                      raised |-> ensure_raises(login_count, ok)]
    /\ UNCHANGED logout_pos

\* fetcher._ensure_login() called directly
ensure_login ==
    /\ fetch_pc = "idle"
    /\ \E ok \in BOOLEAN : EnsureLogin(ok)
    /\ UNCHANGED <<engine_vars, strategy_vars, cache_vars, market_vars, fetch_pc, attempt, count_before>>

\* fetcher._safe_logout() called directly; an exception of bs.logout is
\* swallowed
safe_logout ==
    /\ fetch_pc = "idle"
    /\ login_count' = IF login_count > 0 THEN login_count - 1 ELSE login_count
    /\ logout_pos' = IF login_count > 0 THEN logout_pos + 1 ELSE logout_pos
    /\ bs_session' = IF login_count = 1 THEN FALSE ELSE bs_session
    /\ login_call' = [op |-> "logout", seq |-> 1 - login_call.seq,
                      bs_login |-> FALSE, bs_logout |-> login_count = 1,
                      raised |-> FALSE]
    /\ UNCHANGED <<engine_vars, strategy_vars, cache_vars, market_vars, ensure_ok, fetch_pc, attempt,
                   count_before>>

\* fetch_index_daily, fetch_etf_daily or fetch_stock_daily is called
fetch_start ==
    /\ fetch_pc = "idle"
    /\ fetch_pc' = "attempt"
    /\ attempt' = 1
    /\ count_before' = login_count
    /\ UNCHANGED <<engine_vars, strategy_vars, cache_vars, market_vars, login_count, bs_session,
                   login_call, ensure_ok, logout_pos>>

\* one attempt of the decorated fetch ends with an exception: the retry
\* decorator calls it again, or gives up after the last attempt
attempt_raised ==
    IF attempt < stop_after_attempt
    THEN fetch_pc' = "attempt" /\ attempt' = attempt + 1
    ELSE fetch_pc' = "raised" /\ UNCHANGED attempt

\* one attempt of a fetch: the cache answers, or the fetch logs in and
\* queries the provider; the body has no finally and no _safe_logout
fetch_attempt ==
    /\ fetch_pc = "attempt"
    /\ \E outcome \in {"cache", "login_refused", "query_failed", "fetched"} :
          IF outcome = "cache"
          THEN /\ fetch_pc' = "returned"
               /\ UNCHANGED <<login_count, bs_session, login_call, ensure_ok, logout_pos,
                              attempt>>
          ELSE /\ EnsureLogin(outcome # "login_refused")
               /\ IF outcome = "fetched" /\ ~ensure_raises(login_count, outcome # "login_refused")
                  THEN fetch_pc' = "returned" /\ UNCHANGED attempt
                  ELSE attempt_raised
    /\ UNCHANGED <<engine_vars, strategy_vars, cache_vars, market_vars, count_before>>

\* the caller has the frame or the exception; the next fetch may start
fetch_end ==
    /\ fetch_pc \in {"returned", "raised"}
    /\ fetch_pc' = "idle"
    /\ UNCHANGED <<engine_vars, strategy_vars, cache_vars, market_vars, login_count, bs_session,
                   login_call, ensure_ok, logout_pos, attempt, count_before>>

LoginInit == EngineIdle /\ ServicesIdle

LoginNext == ensure_login \/ safe_logout \/ fetch_start \/ fetch_attempt \/ fetch_end

LoginSpec == LoginInit /\ [][LoginNext]_vars

\* this step is an _ensure_login or _safe_logout call
LoginCall == login_call' # login_call

\* C25: _login_count is the number of successful _ensure_login calls minus
\* the number of _safe_logout calls made with a positive count and is never
\* negative; a successful _ensure_login adds 1 and a _safe_logout on a
\* positive count takes 1 away; bs.login is called only at count 0 and
\* bs.logout only when the count drops to 0.
C25_LoginCount ==
    /\ [](login_count = ensure_ok - logout_pos /\ login_count >= 0)
    /\ [][LoginCall =>
            /\ login_call'.bs_login => login_count = 0
            /\ login_call'.bs_logout => (login_count = 1 /\ login_count' = 0)
            /\ (login_call'.op = "ensure" /\ ~login_call'.raised)
                  => login_count' = login_count + 1
            /\ (login_call'.op = "ensure" /\ login_call'.raised)
                  => login_count' = login_count
            /\ login_call'.op = "logout"
                  => login_count' = IF login_count > 0 THEN login_count - 1 ELSE 0]_vars

\* C25 witness: after two logins and a refused one, a logout that leaves
\* the provider session open
C25_Witness ==
    /\ login_call.op = "logout"
    /\ login_count = 1
    /\ ensure_ok = 2
    /\ logout_pos = 1
    /\ bs_session

\* C30: when a fetch returns or raises, _login_count equals its value
\* before the call.
C30_FetchReleasesLogin ==
    fetch_pc \in {"returned", "raised"} => login_count = count_before

\* C27: every key of benchmark_curves maps to a non-empty curve that starts
\* at initial_capital and whose dates are a contiguous suffix of the aligned
\* dates, in their order.
C27_BenchmarkCurveShape ==
    BenchmarksComputed =>
        \A key \in DOMAIN benchmark_curves :
            LET curve == benchmark_curves[key]
                first == Len(all_dates) - Len(curve)
            IN  /\ Len(curve) >= 1
                /\ curve[1].value = initial_capital
                /\ first >= 0
                /\ \A j \in 1..Len(curve) : curve[j].date = strftime(all_dates[first + j])

(***************************************************************************)
(* The market-data routes (backend/api/routes/market.py), the data refresh *)
(* of run_backtest (backend/api/routes/backtest.py) and the update-all     *)
(* background task.  The assets table holds an index and a fund; rows are  *)
(* counted per trading date because the table has no unique index.         *)
(***************************************************************************)
MaxCopies == 2

MaxTasks == 2

\* asset_repo.get_all()
MarketAssets == <<[code |-> "A", type |-> "index"], [code |-> "F", type |-> "fund"]>>

MarketDates == {1, 2}

\* what a fetch gives: an exception, or a frame with one row per date
FetchOutcomes == {[raised |-> TRUE, dates |-> {}]}
                 \cup {[raised |-> FALSE, dates |-> ds] : ds \in SUBSET MarketDates}

\* the fetch methods exist for these asset types
Fetchable(asset) == asset.type \in {"index", "etf", "stock"}

NoRows == [d \in MarketDates |-> 0]

\* market_repo.get_by_asset(asset.id, ...) is not empty
has_rows(rows) == \E d \in MarketDates : rows[d] > 0

\* market_repo.delete_by_asset
delete_by_asset(rows) == NoRows

\* market_repo.bulk_create_from_df: one INSERT per row of the frame
bulk_create_from_df(rows, dates) ==
    [d \in MarketDates |-> IF d \in dates THEN rows[d] + 1 ELSE rows[d]]

\* the row counters stay within MaxCopies
Insertable(rows, dates) == \A d \in dates : rows[d] < MaxCopies

\* GET /market/{asset_code}/daily
get_market_daily ==
    \E m \in 1..Len(MarketAssets), refresh \in BOOLEAN, f \in FetchOutcomes :
        LET asset == MarketAssets[m]
            rows == IF asset.code = "A" THEN stored ELSE NoRows
            status == IF ~refresh /\ has_rows(rows) THEN "200"
                      ELSE IF ~Fetchable(asset) THEN "400"
                      ELSE IF f.raised THEN "500"
                      ELSE IF f.dates = {} THEN "404"
                      ELSE "200"
            fetched == (refresh \/ ~has_rows(rows)) /\ status = "200"
        IN  /\ fetched => Insertable(rows, f.dates)
            /\ stored' = IF ~fetched THEN stored
                         ELSE IF ~refresh
                         THEN bulk_create_from_df(delete_by_asset(stored), f.dates)
                         ELSE bulk_create_from_df(stored, f.dates)
            /\ market_call' = [op |-> "daily", status |-> status,
                               seq |-> 1 - market_call.seq]
            /\ UNCHANGED <<engine_vars, strategy_vars, cache_vars, login_vars,
                           update_status, tasks>>

\* POST /backtest/run up to the engine call, for one asset of the strategy;
\* stale stands for the test of the latest stored date against end_date
run_backtest ==
    \E m \in 1..Len(MarketAssets), stale \in BOOLEAN, f \in FetchOutcomes :
        LET asset == MarketAssets[m]
            rows == IF asset.code = "A" THEN stored ELSE NoRows
            need_refresh == ~has_rows(rows) \/ stale
            status == IF ~need_refresh THEN "200"
                      ELSE IF ~Fetchable(asset) THEN "400"
                      ELSE IF f.raised THEN "500"
                      ELSE IF f.dates = {} THEN "404"
                      ELSE "200"
        IN  /\ stored' = IF need_refresh /\ status = "200"
                         THEN bulk_create_from_df(delete_by_asset(stored), f.dates)
                         ELSE stored
            /\ market_call' = [op |-> "backtest", status |-> status,
                               seq |-> 1 - market_call.seq]
            /\ UNCHANGED <<engine_vars, strategy_vars, cache_vars, login_vars,
                           update_status, tasks>>

\* a test that lets every POST start a task
update_refused_never(status) == FALSE

\* if _update_status["is_updating"]: return ... "running"
update_refused(status) == status.is_updating

\* POST /market/update-all
update_all_data ==
    /\ Len(tasks) < MaxTasks
    /\ IF update_refused(update_status)
       THEN /\ market_call' = [op |-> "update_all", status |-> "running",
                               seq |-> 1 - market_call.seq]
            /\ UNCHANGED <<update_status, tasks>>
       ELSE /\ update_status' = [is_updating |-> TRUE, total |-> Len(MarketAssets),
                                 updated |-> 0, errors |-> 0]
            /\ tasks' = Append(tasks, [pc |-> "construct", i |-> 0])
            /\ market_call' = [op |-> "update_all", status |-> "started",
                               seq |-> 1 - market_call.seq]
    /\ UNCHANGED <<engine_vars, strategy_vars, cache_vars, login_vars, stored>>

\* _update_all_assets_task before its try: BaostockFetcher() and
\* SessionLocal(); an exception here leaves the task without reaching the
\* finally block
task_construct ==
    \E t \in 1..Len(tasks), ok \in BOOLEAN :
        /\ tasks[t].pc = "construct"
        /\ tasks' = [tasks EXCEPT ![t].pc = IF ok THEN "loop" ELSE "dead"]
        /\ UNCHANGED <<engine_vars, strategy_vars, cache_vars, login_vars, stored,
                       update_status, market_call>>

\* one round of the loop over the assets
task_asset ==
    \E t \in 1..Len(tasks), f \in FetchOutcomes :
        /\ tasks[t].pc = "loop"
        /\ tasks[t].i < Len(MarketAssets)
        /\ LET asset == MarketAssets[tasks[t].i + 1]
               failed == ~Fetchable(asset) \/ f.raised
               written == ~failed /\ f.dates # {}
           IN  /\ stored' = IF written /\ asset.code = "A"
                            THEN bulk_create_from_df(delete_by_asset(stored), f.dates)
                            ELSE stored
               /\ update_status' =
                     [update_status EXCEPT
                         !.updated = IF written THEN @ + 1 ELSE @,
                         !.errors = IF failed THEN @ + 1 ELSE @,
                         !.total = Len(MarketAssets)]
        /\ tasks' = [tasks EXCEPT ![t].i = @ + 1]
        /\ UNCHANGED <<engine_vars, strategy_vars, cache_vars, login_vars, market_call>>

\* the finally block: db.close() and is_updating = False
task_finally ==
    \E t \in 1..Len(tasks) :
        /\ tasks[t].pc = "loop"
        /\ tasks[t].i = Len(MarketAssets)
        /\ tasks' = [tasks EXCEPT ![t].pc = "ended"]
        /\ update_status' = [update_status EXCEPT !.is_updating = FALSE]
        /\ UNCHANGED <<engine_vars, strategy_vars, cache_vars, login_vars, stored,
                       market_call>>

MarketInit ==
    /\ EngineIdle
    /\ StrategyIdle
    /\ CacheIdle
    /\ LoginIdle
    /\ stored \in [MarketDates -> {0, 1}]
    /\ update_status = [is_updating |-> FALSE, total |-> 0, updated |-> 0, errors |-> 0]
    /\ tasks = <<>>
    /\ market_call = [op |-> "none", status |-> "none", seq |-> 0]

TaskStep == task_construct \/ task_asset \/ task_finally

MarketNext ==
    \/ get_market_daily
    \/ run_backtest
    \/ update_all_data
    \/ task_construct
    \/ task_asset
    \/ task_finally

MarketSpec == MarketInit /\ [][MarketNext]_vars

\* a started task is scheduled until it ends
MarketLiveSpec == MarketInit /\ [][MarketNext]_vars /\ WF_vars(TaskStep)

\* C26: the stored market data of an asset has at most one row per date.
C26_OneRowPerDate == \A d \in MarketDates : stored[d] <= 1

InProgress == {t \in 1..Len(tasks) : tasks[t].pc \in {"construct", "loop"}}

\* C28: at most one update-all task is in progress, and a POST /update-all
\* received while is_updating is true starts no task, leaves the progress
\* counters alone and reports running.
C28_SingleUpdateTask ==
    /\ [](Cardinality(InProgress) <= 1)
    /\ [][(market_call' # market_call /\ market_call'.op = "update_all"
              /\ update_status.is_updating) =>
            /\ tasks' = tasks
            /\ update_status' = update_status
            /\ market_call'.status = "running"]_vars

\* C28 witness: a POST was answered running while a task had already
\* updated an asset
C28_Witness ==
    /\ market_call.op = "update_all"
    /\ market_call.status = "running"
    /\ Len(tasks) = 1
    /\ tasks[1].pc = "loop"
    /\ tasks[1].i = 1
    /\ update_status.updated = 1
    /\ update_status.is_updating

\* C29: every started update-all task eventually sets is_updating back to
\* false, whatever fails during the task, and when a task has ended
\* updated + errors <= total.
C29_TaskResetsFlag ==
    /\ [](update_status.is_updating => <>(~update_status.is_updating))
    /\ [](\A t \in 1..Len(tasks) :
             tasks[t].pc = "ended" /\ InProgress = {}
                 => update_status.updated + update_status.errors <= update_status.total)

====
